---- MODULE Spec2Model ----
(***************************************************************************)
(* OrbitWatch: the ISS position poll with its orbit trail (js/app.js) and  *)
(* the pass predictor (js/predictions.js).                                 *)
(*                                                                         *)
(* Spec      the position poll: initGlobe, the setInterval tick, the       *)
(*           primary and fallback position fetches, addTrailPoint.         *)
(* PassSpec  one call of computePasses, one action per loop iteration.     *)
(* MeteorSpec one call of getActiveAndUpcomingShowers, one action per      *)
(*           shower of the table.                                          *)
(* PanelSpec the drawer buttons, the runs of initPassPrediction and of     *)
(*           initMeteorShower they schedule, and the page-load timer.      *)
(* SoundSpec the clicks on the sound button and the delayed closes.        *)
(* SunSpec   the animation loop's calls of getSunPosition.                *)
(* SessionSpec a short session of the poll in which the other features     *)
(*           fail: the geocoder, the crew fetch, the pass prediction.      *)
(***************************************************************************)
EXTENDS Integers, Sequences, FiniteSets

(***************************************************************************)
(* Program constants.                                                      *)
(***************************************************************************)
TRAIL_MAX == 60
MIN_ELEVATION_DEG == 10
stepMs == 10000
WindowMs == 48 * 60 * 60 * 1000
MaxPasses == 5

(***************************************************************************)
(* Bounds of the model.                                                    *)
(***************************************************************************)
\* ticks of the poll in a long run (the trail fills up and evicts)
MaxTicks == 62
\* clicks on the drawer buttons in a panel session
MaxClicks == 3
\* ticks of the poll in a session in which everything fails
SessionTicks == 2
\* days over which getSunPosition is called
MaxSunDays == 3
\* audio contexts created in a sound session
MaxContexts == 5
\* length of the repeating ground-track pattern in a long run and in a race
LongTrackLen == 2
\* length of the ground track in a segmentation run (every track up to it)
SegTrackLen == 4
\* ticks of the poll in a race run (fetches overlap and fail)
RaceTicks == 3
\* position fetches that may be outstanding at once in a race run
MaxOutstanding == 2

\* samples of a train profile that are drawn freely, one by one
FreeSamples == 4

\* The positions the feed reports, [lat, lng]. 175 -> -179 and 170 -> -175
\* cross the antimeridian; -5 -> 175 is a jump of exactly 180.
Lngs == {-179, -175, -5, 170, 175}
Points == {<<10, l>> : l \in Lngs}

VARIABLES
  \* ---- js/app.js: state, DOM ----
  globe,          \* state.globe: FALSE is null
  trailPoints,    \* state.trailPoints: sequence of <<lat, lng>>
  pathsData,      \* what state.globe.pathsData holds: sequence of [coords]
  issData,        \* state.issData[0]
  domCoords,      \* textContent of DOM.lat and DOM.lng
  updateCount,    \* state.updateCount
  outstanding,    \* position fetches in flight: [id, stage]
  ticks,          \* fetchISSPosition calls so far
  failures,       \* primary fetches that failed so far
  \* ---- the environment of the poll ----
  track,          \* the feed: fetch number n answers with track[n mod Len]
  limits,         \* the run's bounds: [ticks, outstanding, failures]
  \* ---- history ----
  fed,            \* the points handed to addTrailPoint, in call order
  completed,      \* the fetches that answered, in the order they answered
  \* ---- js/predictions.js: module state and computePasses' locals ----
  tleData,        \* FALSE is null
  pc,             \* "idle", "loop", "break", "done"
  now,            \* new Date() at the call, ms
  t,              \* the loop variable, ms
  inPass,
  currentPass,    \* NullPass or the open pass
  maxEl,
  passes,
  result,         \* what computePasses returned
  \* ---- the environment of computePasses ----
  prof,           \* the elevation profile the propagation yields
  \* ---- js/predictions.js: getActiveAndUpcomingShowers' locals ----
  clock,          \* the wall clock, local time: [year, month, day, hour]
  mpc,            \* "idle", "each", "done"
  mnow,           \* now = new Date()
  midx,           \* showers of the table already visited by forEach
  active,
  upcoming,
  shown,          \* what getActiveAndUpcomingShowers returned
  \* ---- history ----
  anchored,       \* start, end and peak as computed for each shower visited
  \* ---- panels module: the drawer system ----
  activeDrawer,   \* NoDrawer is null
  drawerOpen,     \* the drawers whose classList holds 'open'
  panelHidden,    \* the panel's classList holds 'panel--hidden'
  btnActive,      \* the drawer buttons whose classList holds 'active'
  speedInitialized,
  \* ---- js/predictions.js: module state, the DOM it writes, its timers ----
  userLocation,   \* FALSE is null
  runs,           \* the runs of initPassPrediction, in the order they began
  statusText,     \* #passes-status
  container,      \* #passes-list
  meteorContent,  \* #meteor-content
  badge,          \* the badge of #btn-meteor
  timers,         \* the timeouts set and not yet fired
  \* ---- history ----
  clicks,         \* the clicks so far
  tleSets,        \* the assignments to tleData so far
  computations,   \* the calls of getActiveAndUpcomingShowers so far
  \* ---- panels module: ambient sound ----
  audioCtx,       \* NoContext is null, else the number of the context
  contexts,       \* the state of each AudioContext created
  audioNodes,     \* TRUE when audioNodes.masterGain is set
  soundActive,
  closeTimers,    \* the delayed closes set and not yet fired
  \* ---- js/app.js: what the geocoder and the crew fetch write ----
  currentLocation, \* state.currentLocation and the text of #location
  crewCount,      \* the text of #crew-count
  \* ---- js/app.js: the day/night shader ----
  sunPosition,    \* the sunPosition uniform: <<longitude, declination>>
  sunAt,          \* the timestamp of the last call of getSunPosition, s
  ephemeris,      \* what the solar library yields at each timestamp
  \* ---- the environment of a session ----
  env             \* the buttons the user clicks and the answers of the network

trailVars == <<globe, trailPoints, pathsData, issData, domCoords, updateCount,
               outstanding, ticks, failures, track, limits, fed, completed>>

passVars == <<tleData, pc, now, t, inPass, currentPass, maxEl, passes, result,
              prof>>

meteorVars == <<clock, mpc, mnow, midx, active, upcoming, shown, anchored>>

drawerVars == <<activeDrawer, drawerOpen, panelHidden, btnActive,
                speedInitialized>>

predictVars == <<userLocation, runs, statusText, container, meteorContent,
                 badge, timers, clicks, tleSets, computations>>

soundVars == <<audioCtx, contexts, audioNodes, soundActive, closeTimers>>

sideVars == <<currentLocation, crewCount>>

sunVars == <<sunPosition, sunAt, ephemeris>>

vars == <<trailVars, passVars, meteorVars, drawerVars, predictVars,
          soundVars, sideVars, sunVars, env>>

Abs(x) == IF x < 0 THEN -x ELSE x
Min(a, b) == IF a < b THEN a ELSE b

(***************************************************************************)
(* The position feed.                                                      *)
(***************************************************************************)
Tracks(n) == UNION {[1..k -> Points] : k \in 1..n}

\* what fetch number n (primary or fallback) answers with
FeedPoint(n) == track[((n - 1) % Len(track)) + 1]

(***************************************************************************)
(* addTrailPoint                                                           *)
(***************************************************************************)
\* mutant: the shift comes one entry late
EvictLate(pushed) ==
  IF Len(pushed) > TRAIL_MAX + 1 THEN Tail(pushed) ELSE pushed

\* mutant: pop instead of shift, the newest point is dropped
EvictNewest(pushed) ==
  IF Len(pushed) > TRAIL_MAX
  THEN SubSeq(pushed, 1, Len(pushed) - 1)
  ELSE pushed

\* push, then shift once the length exceeds TRAIL_MAX
Evict(pushed) ==
  IF Len(pushed) > TRAIL_MAX THEN Tail(pushed) ELSE pushed

\* mutant: the Math.abs is missing
CrossesSigned(prevLng, currLng) == currLng - prevLng > 180

\* mutant: >= instead of >
CrossesAtHalfTurn(prevLng, currLng) == Abs(currLng - prevLng) >= 180

\* the antimeridian test on two consecutive longitudes
Crosses(prevLng, currLng) == Abs(currLng - prevLng) > 180

\* the for loop over state.trailPoints, from index i (1-based)
RECURSIVE SegLoop(_, _, _, _)
SegLoop(tp, i, segments, currentSeg) ==
  IF i > Len(tp)
  THEN Append(segments, [coords |-> currentSeg])
  ELSE IF Crosses(tp[i - 1][2], tp[i][2])
       THEN SegLoop(tp, i + 1, Append(segments, [coords |-> currentSeg]),
                    <<tp[i]>>)
       ELSE SegLoop(tp, i + 1, segments, Append(currentSeg, tp[i]))

\* mutant: currentSeg starts empty, the first point is left out
SegmentsWithoutFirst(tp) == SegLoop(tp, 2, <<>>, <<>>)

\* let currentSeg = [state.trailPoints[0]], then the loop from i = 1
Segments(tp) == SegLoop(tp, 2, <<>>, <<tp[1]>>)

\* mutant: the path is drawn from the first point on
DrawsPathFromOne(g, tp) == g /\ Len(tp) >= 1

\* the guard of the path update
DrawsPath(g, tp) == g /\ Len(tp) >= 2

AddTrailPoint(lat, lng) ==
  LET tp == Evict(Append(trailPoints, <<lat, lng>>))
  IN /\ trailPoints' = tp
     /\ pathsData' = IF DrawsPath(globe, tp) THEN Segments(tp) ELSE pathsData
     /\ fed' = Append(fed, <<lat, lng>>)

(***************************************************************************)
(* updateCoordinates, updateGlobe                                          *)
(***************************************************************************)
CoordText(v, pos, neg) == <<Abs(v), IF v >= 0 THEN pos ELSE neg>>

UpdateCoordinates(lat, lng) ==
  domCoords' = [lat |-> CoordText(lat, "N", "S"),
                lng |-> CoordText(lng, "E", "W")]

UpdateGlobe(lat, lng) ==
  IF ~globe
  THEN UNCHANGED <<issData, updateCount>>
  ELSE /\ updateCount' = updateCount + 1
       /\ issData' = [lat |-> lat, lng |-> lng]

\* the calls both fetches make with a position. updateMetrics (primary
\* only), throttledGeocode and the label and camera part of updateGlobe
\* write the metric cards, the location text and the point of view only.
ApplyPosition(lat, lng) ==
  /\ UpdateCoordinates(lat, lng)
  /\ UpdateGlobe(lat, lng)
  /\ AddTrailPoint(lat, lng)

(***************************************************************************)
(* The poll                                                                *)
(***************************************************************************)
OldestResponse(f, out) ==
  FeedPoint(CHOOSE n \in {g.id : g \in out} : \A g \in out : n <= g.id)

\* data = await res.json(): the answer to the fetch that resumes
Response(f, out) == FeedPoint(f.id)

CaughtSilently(f) == {}

\* the catch of fetchISSPosition: fetchISSFallback() for the same tick
Caught(f) == {[id |-> f.id, stage |-> "fallback"]}

\* mutant: the fallback is called in a finally, after a success too
ResolvedThenFallback(f) == {[id |-> f.id, stage |-> "fallback"]}

\* the try block of fetchISSPosition ran to its end: nothing follows it
Resolved(f) == {}

pollFrame == <<track, limits, passVars, meteorVars, drawerVars, predictVars,
               soundVars, sideVars, sunVars, env>>

StartFetch ==
  /\ ticks' = ticks + 1
  /\ outstanding' = outstanding \cup {[id |-> ticks + 1, stage |-> "primary"]}

\* initGlobe, once the textures are loaded: the globe is created with an
\* empty path list, the first fetch is started and the interval is set
InitGlobe ==
  /\ ~globe
  /\ globe' = TRUE
  /\ pathsData' = <<>>
  /\ StartFetch
  /\ UNCHANGED <<trailPoints, issData, domCoords, updateCount, failures, fed,
                 completed>>
  /\ UNCHANGED pollFrame

IntervalClearedOnFailure(g, failed) == g /\ failed = 0

\* the interval is set by initGlobe and never cleared, whatever failed
IntervalSet(g, failed) == g

\* setInterval(fetchISSPosition, UPDATE_INTERVAL)
Tick ==
  /\ IntervalSet(globe, failures)
  /\ ticks < limits.ticks
  /\ Cardinality(outstanding) < limits.outstanding
  /\ StartFetch
  /\ UNCHANGED <<globe, trailPoints, pathsData, issData, domCoords,
                 updateCount, failures, fed, completed>>
  /\ UNCHANGED pollFrame

\* fetchISSPosition after the await: the response is ok
PrimaryOk ==
  \E f \in outstanding :
    /\ f.stage = "primary"
    /\ outstanding' = (outstanding \ {f}) \cup Resolved(f)
    /\ ApplyPosition(Response(f, outstanding)[1], Response(f, outstanding)[2])
    /\ completed' = Append(completed, f.id)
    /\ UNCHANGED <<globe, ticks, failures>>
    /\ UNCHANGED pollFrame

\* fetchISSPosition after the await: the fetch threw, the fallback starts
PrimaryFail ==
  \E f \in outstanding :
    /\ f.stage = "primary"
    /\ failures < limits.failures
    /\ failures' = failures + 1
    /\ outstanding' = (outstanding \ {f}) \cup Caught(f)
    /\ UNCHANGED <<globe, trailPoints, pathsData, issData, domCoords,
                   updateCount, ticks, fed, completed>>
    /\ UNCHANGED pollFrame

\* fetchISSFallback after the await: the response is ok
FallbackOk ==
  \E f \in outstanding :
    /\ f.stage = "fallback"
    /\ outstanding' = outstanding \ {f}
    /\ ApplyPosition(Response(f, outstanding)[1], Response(f, outstanding)[2])
    /\ completed' = Append(completed, f.id)
    /\ UNCHANGED <<globe, ticks, failures>>
    /\ UNCHANGED pollFrame

\* fetchISSFallback after the await: the fetch threw, the error is logged
FallbackFail ==
  \E f \in outstanding :
    /\ f.stage = "fallback"
    /\ outstanding' = outstanding \ {f}
    /\ UNCHANGED <<globe, trailPoints, pathsData, issData, domCoords,
                   updateCount, ticks, failures, fed, completed>>
    /\ UNCHANGED pollFrame

(***************************************************************************)
(* The elevation profile: what satellite.propagate and the look-angle      *)
(* conversion yield at each sample. Sample i is taken at now + i * stepMs. *)
(***************************************************************************)
WindowSamples == WindowMs \div stepMs

Invalid == [valid |-> FALSE, el |-> 0]
Valid(e) == [valid |-> TRUE, el |-> e]

\* what a freely drawn sample may be: no position, below the minimum, at
\* the minimum, well above it
FreeVals == {Invalid, Valid(9), Valid(10), Valid(40)}
Heads == UNION {[1..k -> FreeVals] : k \in 0..FreeSamples}

\* a pulse lasts 300 s: 30 or 31 samples, by its phase against the sampling
PulseWidths == {300000 \div stepMs, 300000 \div stepMs + 1}
PulseLeads == {0, 2}
LateLeads == {1, 3}
Shapes == {"flat", "tent", "ramp"}

\* the elevation of sample j (from 0) of a pulse of w samples
ShapeEl(shape, j, w) ==
  CASE shape = "flat" -> MIN_ELEVATION_DEG
    [] shape = "tent" -> MIN_ELEVATION_DEG + 2 * Min(j, w - 1 - j)
    [] shape = "ramp" -> MIN_ELEVATION_DEG + j

Plain(h, r) == [head |-> h, rest |-> r, lead |-> 0, width |-> 0,
                shape |-> "flat"]

\* train: freely drawn samples, then above and below the minimum in turn;
\* quiet: never above the minimum; dead: no sample has a position;
\* pulse: above the minimum on one interval of 300 s;
\* late: above the minimum from shortly before the window's end onward
Profiles ==
  {Plain(h, "train") : h \in Heads}
  \cup {Plain(<<>>, "quiet"), Plain(<<>>, "dead")}
  \cup {[head |-> <<>>, rest |-> "pulse", lead |-> l, width |-> w,
         shape |-> sh] : l \in PulseLeads, w \in PulseWidths, sh \in Shapes}
  \cup {[head |-> <<>>, rest |-> "late", lead |-> l, width |-> 0,
         shape |-> "ramp"] : l \in LateLeads}

SampleAt(i) ==
  IF i < Len(prof.head)
  THEN prof.head[i + 1]
  ELSE LET k == i - Len(prof.head)
       IN CASE prof.rest = "train" ->
                 IF k % 2 = 0 THEN Valid(40) ELSE Valid(9)
            [] prof.rest = "quiet" -> Valid(-20)
            [] prof.rest = "dead" -> Invalid
            [] prof.rest = "pulse" ->
                 IF k >= prof.lead /\ k < prof.lead + prof.width
                 THEN Valid(ShapeEl(prof.shape, k - prof.lead, prof.width))
                 ELSE Valid(-20)
            [] prof.rest = "late" ->
                 IF k >= WindowSamples - prof.lead
                 THEN Valid(ShapeEl(prof.shape, k - (WindowSamples - prof.lead),
                                    prof.lead))
                 ELSE Valid(-20)

\* the azimuth of sample i, degrees
AzAt(i) == (i * 37) % 360

\* the sample taken at time tt
Idx(tt) == (tt - now) \div stepMs
TimeOf(i) == now + i * stepMs

(***************************************************************************)
(* computePasses                                                           *)
(***************************************************************************)
NullPass == [null |-> TRUE]

\* mutant: the check for a position is missing
HasPositionAlways(sample) == TRUE

\* posVel.position is set
HasPosition(sample) == sample.valid

\* mutant: > instead of >=
VisibleStrict(elDeg) == elDeg > MIN_ELEVATION_DEG

\* elDeg >= MIN_ELEVATION_DEG
Visible(elDeg) == elDeg >= MIN_ELEVATION_DEG

\* mutant: the cap is one pass late
CapReachedLate(ps) == Len(ps) >= MaxPasses + 1

\* passes.length >= 5
CapReached(ps) == Len(ps) >= MaxPasses

\* mutant: >= instead of >, a later equal sample takes the maximum
RaisesMaxOrEqual(elDeg, mx) == elDeg >= mx

\* elDeg > maxEl
RaisesMax(elDeg, mx) == elDeg > mx

\* the loop condition t < end.getTime()
InWindow(tt) == tt < now + WindowMs

\* mutant: the pass opened at a sample starts at now, not at the sample
OpenPassAtNow(tt, elDeg, azDeg) ==
  [start |-> now, startAz |-> azDeg, maxEl |-> elDeg, maxElTime |-> tt,
   end |-> tt, endAz |-> azDeg]

\* mutant: the pass opened at a sample starts one step late
OpenPassLate(tt, elDeg, azDeg) ==
  [start |-> tt + stepMs, startAz |-> azDeg, maxEl |-> elDeg,
   maxElTime |-> tt, end |-> tt, endAz |-> azDeg]

\* the pass record opened at a sample
OpenPass(tt, elDeg, azDeg) ==
  [start |-> tt, startAz |-> azDeg, maxEl |-> elDeg, maxElTime |-> tt,
   end |-> tt, endAz |-> azDeg]

\* mutant: the end of the open pass is not moved
ExtendPassStale(cp, tt, azDeg) == [cp EXCEPT !.endAz = azDeg]

\* currentPass.end = date; currentPass.endAz = azDeg
ExtendPass(cp, tt, azDeg) == [cp EXCEPT !.end = tt, !.endAz = azDeg]

\* mutant: the guard on the element set is missing
NoElementSetNever(tle) == FALSE

\* !tleData
NoElementSet(tle) == ~tle

passFrame == <<trailVars, meteorVars, drawerVars, predictVars, soundVars,
               sideVars, sunVars, env>>

\* the call: without an element set it returns [] at once
ComputePassesEnter ==
  /\ pc = "idle"
  /\ IF NoElementSet(tleData)
     THEN /\ pc' = "done"
          /\ result' = <<>>
          /\ UNCHANGED <<t, inPass, currentPass, maxEl, passes>>
     ELSE /\ pc' = "loop"
          /\ passes' = <<>>
          /\ t' = now
          /\ inPass' = FALSE
          /\ currentPass' = NullPass
          /\ maxEl' = 0
          /\ UNCHANGED result
  /\ UNCHANGED <<tleData, now, prof>>
  /\ UNCHANGED passFrame

\* an iteration whose propagation has no position: continue
SampleSkipped ==
  /\ pc = "loop"
  /\ InWindow(t)
  /\ ~HasPosition(SampleAt(Idx(t)))
  /\ t' = t + stepMs
  /\ UNCHANGED <<tleData, pc, now, inPass, currentPass, maxEl, passes, result,
                 prof>>
  /\ UNCHANGED passFrame

\* an iteration at or above the minimum elevation
SampleVisible ==
  /\ pc = "loop"
  /\ InWindow(t)
  /\ HasPosition(SampleAt(Idx(t)))
  /\ LET elDeg == SampleAt(Idx(t)).el
         azDeg == AzAt(Idx(t))
         cp0 == IF ~inPass THEN OpenPass(t, elDeg, azDeg) ELSE currentPass
         mx0 == IF ~inPass THEN elDeg ELSE maxEl
         cp1 == IF RaisesMax(elDeg, mx0)
                THEN [cp0 EXCEPT !.maxEl = elDeg, !.maxElTime = t]
                ELSE cp0
     IN /\ Visible(elDeg)
        /\ inPass' = TRUE
        /\ maxEl' = IF RaisesMax(elDeg, mx0) THEN elDeg ELSE mx0
        /\ currentPass' = ExtendPass(cp1, t, azDeg)
  /\ t' = t + stepMs
  /\ UNCHANGED <<tleData, pc, now, passes, result, prof>>
  /\ UNCHANGED passFrame

\* an iteration below the minimum that ends the open pass; the fifth pass
\* breaks out of the loop
SampleClosesPass ==
  /\ pc = "loop"
  /\ InWindow(t)
  /\ HasPosition(SampleAt(Idx(t)))
  /\ ~Visible(SampleAt(Idx(t)).el)
  /\ inPass
  /\ inPass' = FALSE
  /\ passes' = Append(passes, currentPass)
  /\ currentPass' = NullPass
  /\ maxEl' = 0
  /\ IF CapReached(passes')
     THEN pc' = "break" /\ t' = t
     ELSE pc' = "loop" /\ t' = t + stepMs
  /\ UNCHANGED <<tleData, now, result, prof>>
  /\ UNCHANGED passFrame

\* an iteration below the minimum outside a pass
SampleBelow ==
  /\ pc = "loop"
  /\ InWindow(t)
  /\ HasPosition(SampleAt(Idx(t)))
  /\ ~Visible(SampleAt(Idx(t)).el)
  /\ ~inPass
  /\ t' = t + stepMs
  /\ UNCHANGED <<tleData, pc, now, inPass, currentPass, maxEl, passes, result,
                 prof>>
  /\ UNCHANGED passFrame

\* mutant: a pass still open at the return is appended
ReturnedWithOpen(ps, open, cp) == IF open THEN Append(ps, cp) ELSE ps

\* return passes
Returned(ps, open, cp) == ps

\* return passes, after the break or once the window is exhausted
ComputePassesReturn ==
  /\ \/ pc = "break"
     \/ pc = "loop" /\ ~InWindow(t)
  /\ pc' = "done"
  /\ result' = Returned(passes, inPass, currentPass)
  /\ UNCHANGED <<tleData, now, t, inPass, currentPass, maxEl, passes, prof>>
  /\ UNCHANGED passFrame

PassIdle ==
  /\ pc = "idle"
  /\ t = 0
  /\ inPass = FALSE
  /\ currentPass = NullPass
  /\ maxEl = 0
  /\ passes = <<>>
  /\ result = <<>>

(***************************************************************************)
(* The meteor shower calendar. Dates are local times, counted in hours     *)
(* since 1 January of BaseYear, 00:00, in a zone without daylight saving.  *)
(***************************************************************************)
\* a month-day string "MM-DD" is the tuple of its four digits
MMDD(a, b, c, d) == <<a, b, c, d>>

Shower(n, pk, st, en, r, par) ==
  [name |-> n, peak |-> pk, start |-> st, end |-> en, rate |-> r,
   parent |-> par]

METEOR_SHOWERS == <<
  Shower("Quadrantids", MMDD(0,1,0,3), MMDD(1,2,2,8), MMDD(0,1,1,2), 120,
         "2003 EH1"),
  Shower("Lyrids", MMDD(0,4,2,2), MMDD(0,4,1,6), MMDD(0,4,2,5), 18,
         "C/1861 G1 (Thatcher)"),
  Shower("Eta Aquariids", MMDD(0,5,0,6), MMDD(0,4,1,9), MMDD(0,5,2,8), 50,
         "1P/Halley"),
  Shower("Delta Aquariids", MMDD(0,7,3,0), MMDD(0,7,1,2), MMDD(0,8,2,3), 25,
         "96P/Machholz"),
  Shower("Perseids", MMDD(0,8,1,2), MMDD(0,7,1,7), MMDD(0,8,2,4), 100,
         "109P/Swift-Tuttle"),
  Shower("Draconids", MMDD(1,0,0,8), MMDD(1,0,0,6), MMDD(1,0,1,0), 10,
         "21P/Giacobini-Zinner"),
  Shower("Orionids", MMDD(1,0,2,1), MMDD(1,0,0,2), MMDD(1,1,0,7), 20,
         "1P/Halley"),
  Shower("Leonids", MMDD(1,1,1,7), MMDD(1,1,0,6), MMDD(1,1,3,0), 15,
         "55P/Tempel-Tuttle"),
  Shower("Geminids", MMDD(1,2,1,4), MMDD(1,2,0,4), MMDD(1,2,1,7), 150,
         "3200 Phaethon"),
  Shower("Ursids", MMDD(1,2,2,2), MMDD(1,2,1,7), MMDD(1,2,2,6), 10,
         "8P/Tuttle")>>

\* the years the clock may show: a leap year and a common year
Years == {2024, 2025}
BaseYear == (CHOOSE y \in Years : \A z \in Years : y <= z) - 1

IsLeap(y) == (y % 4 = 0 /\ y % 100 # 0) \/ y % 400 = 0
DaysInYear(y) == IF IsLeap(y) THEN 366 ELSE 365
DaysInMonth(y, m) ==
  CASE m \in {1, 3, 5, 7, 8, 10, 12} -> 31
    [] m \in {4, 6, 9, 11} -> 30
    [] m = 2 -> IF IsLeap(y) THEN 29 ELSE 28

RECURSIVE DaysBeforeYear(_)
DaysBeforeYear(y) ==
  IF y <= BaseYear THEN 0 ELSE DaysBeforeYear(y - 1) + DaysInYear(y - 1)

RECURSIVE DaysBeforeMonth(_, _)
DaysBeforeMonth(y, m) ==
  IF m <= 1 THEN 0 ELSE DaysBeforeMonth(y, m - 1) + DaysInMonth(y, m - 1)

HoursPerDay == 24

\* new Date(year, monthIndex, day): local midnight
NewDate(year, monthIndex, day) ==
  (DaysBeforeYear(year) + DaysBeforeMonth(year, monthIndex + 1) + day - 1)
    * HoursPerDay

\* the time value of the Date the clock shows
ValueOf(date) == NewDate(date.year, date.month - 1, date.day) + date.hour

\* mmdd.split('-').map(Number), then new Date(year, m - 1, d)
ParseMMDD(mmdd, year) ==
  LET m == 10 * mmdd[1] + mmdd[2]
      d == 10 * mmdd[3] + mmdd[4]
  IN NewDate(year, m - 1, d)

FloorDiv(a, b) == a \div b

\* Math.ceil(a / b), b > 0
CeilDiv(a, b) == -((-a) \div b)

SecondHalf(date) == date.month - 1 >= 6

\* now.getMonth() < 6
FirstHalf(date) == date.month - 1 < 6

\* start, end and peak of a shower, re-anchored when it spans the year's end
Anchor(shower, date) ==
  LET year == date.year
      start == ParseMMDD(shower.start, year)
      end == ParseMMDD(shower.end, year)
      peak == ParseMMDD(shower.peak, year)
  IN IF end < start
     THEN IF FirstHalf(date)
          THEN [start |-> ParseMMDD(shower.start, year - 1), end |-> end,
                peak |-> peak]
          ELSE [start |-> start, end |-> ParseMMDD(shower.end, year + 1),
                peak |-> ParseMMDD(shower.peak, year + 1)]
     ELSE [start |-> start, end |-> end, peak |-> peak]

IsPeakWithinADay(nowV, peak) == Abs(nowV - peak) <= HoursPerDay

\* Math.abs(now - peak) < 24 * 60 * 60 * 1000
IsPeak(nowV, peak) == Abs(nowV - peak) < HoursPerDay

IsActiveBeforeEnd(nowV, start, end) == nowV >= start /\ nowV < end

\* now >= start && now <= end
IsActive(nowV, start, end) == nowV >= start /\ nowV <= end

\* daysUntilStart > 0 && daysUntilStart <= 60
IsUpcoming(daysUntilStart) == daysUntilStart > 0 /\ daysUntilStart <= 60

Unshift(list, entry) == <<entry>> \o list

\* active.push(...), upcoming.push(...)
Push(list, entry) == Append(list, entry)

meteorFrame == <<trailVars, passVars, drawerVars, predictVars, soundVars,
                 sideVars, sunVars, env>>

\* the call: now = new Date(), the two lists are empty
ShowersEnter ==
  /\ mpc = "idle"
  /\ mpc' = "each"
  /\ mnow' = clock
  /\ midx' = 0
  /\ active' = <<>>
  /\ upcoming' = <<>>
  /\ UNCHANGED <<clock, shown, anchored>>
  /\ UNCHANGED meteorFrame

\* one call of the forEach callback
ShowerEach ==
  /\ mpc = "each"
  /\ midx < Len(METEOR_SHOWERS)
  /\ LET shower == METEOR_SHOWERS[midx + 1]
         a == Anchor(shower, mnow)
         nowV == ValueOf(mnow)
         isPeak == IsPeak(nowV, a.peak)
         isActive == IsActive(nowV, a.start, a.end)
         daysUntilStart == CeilDiv(a.start - nowV, HoursPerDay)
     IN /\ anchored' = Append(anchored, a)
        /\ IF isActive
           THEN /\ active' = Push(active,
                    [shower |-> shower, isPeak |-> isPeak,
                     daysUntilPeak |-> CeilDiv(a.peak - nowV, HoursPerDay)])
                /\ UNCHANGED upcoming
           ELSE IF IsUpcoming(daysUntilStart)
                THEN /\ upcoming' = Push(upcoming,
                         [shower |-> shower,
                          daysUntilStart |-> daysUntilStart])
                     /\ UNCHANGED active
                ELSE UNCHANGED <<active, upcoming>>
  /\ midx' = midx + 1
  /\ UNCHANGED <<clock, mpc, mnow, shown>>
  /\ UNCHANGED meteorFrame

\* return { active, upcoming }
ShowersReturn ==
  /\ mpc = "each"
  /\ midx = Len(METEOR_SHOWERS)
  /\ mpc' = "done"
  /\ shown' = [active |-> active, upcoming |-> upcoming]
  /\ UNCHANGED <<clock, mnow, midx, active, upcoming, anchored>>
  /\ UNCHANGED meteorFrame

MeteorIdle ==
  /\ mpc = "idle"
  /\ mnow = [year |-> 0, month |-> 1, day |-> 1, hour |-> 0]
  /\ midx = 0
  /\ active = <<>>
  /\ upcoming = <<>>
  /\ shown = [active |-> <<>>, upcoming |-> <<>>]
  /\ anchored = <<>>

(***************************************************************************)
(* The drawer system. A drawer button is named by its data-drawer value,   *)
(* the id of the drawer it opens.                                          *)
(***************************************************************************)
NoDrawer == "none"
SpeedDrawer == "drawer-speed"
\* the drawers that #btn-passes and #btn-meteor open
PassesDrawer == "drawer-passes"
MeteorDrawer == "drawer-meteor"
Drawers == {SpeedDrawer, PassesDrawer, MeteorDrawer}

\* the part of the page the drawer system writes
DrawerState ==
  [activeDrawer |-> activeDrawer, drawerOpen |-> drawerOpen,
   panelHidden |-> panelHidden, btnActive |-> btnActive]

\* closeDrawer()
CloseDrawer(ds) ==
  [activeDrawer |-> NoDrawer,
   drawerOpen |-> IF ds.activeDrawer # NoDrawer
                  THEN ds.drawerOpen \ {ds.activeDrawer}
                  ELSE ds.drawerOpen,
   panelHidden |-> FALSE,
   btnActive |-> {}]

\* "Close any open drawer first"
ClosedOthers(ds, id) ==
  IF ds.activeDrawer # NoDrawer /\ ds.activeDrawer # id
  THEN [ds EXCEPT !.drawerOpen = @ \ {ds.activeDrawer}]
  ELSE ds

\* mutant: the toggle test is missing
TogglesNever(ds, id) == FALSE

\* activeDrawer === drawer && drawer.classList.contains('open')
Toggles(ds, id) == ds.activeDrawer = id /\ id \in ds.drawerOpen

\* openDrawer(id), the panel-specific init apart
OpenDrawer(ds, id) ==
  LET cs == ClosedOthers(ds, id)
  IN IF Toggles(cs, id)
     THEN CloseDrawer(cs)
     ELSE [activeDrawer |-> id,
           drawerOpen |-> cs.drawerOpen \cup {id},
           panelHidden |-> TRUE,
           btnActive |-> {b \in Drawers : b = id}]

\* the assignment of a drawer state to the page
SetDrawerState(ds) ==
  /\ activeDrawer' = ds.activeDrawer
  /\ drawerOpen' = ds.drawerOpen
  /\ panelHidden' = ds.panelHidden
  /\ btnActive' = ds.btnActive

\* initSpeedBars runs when the speed drawer is opened, not when it is closed
InitSpeedBars(ds, id) ==
  speedInitialized' =
    (speedInitialized \/ (id = SpeedDrawer /\ ~Toggles(ClosedOthers(ds, id), id)))

DrawerIdle ==
  /\ activeDrawer = NoDrawer
  /\ drawerOpen = {}
  /\ panelHidden = FALSE
  /\ btnActive = {}
  /\ speedInitialized = FALSE

(***************************************************************************)
(* initPassPrediction. A run is a record: where it waits, what its         *)
(* element-set fetch and its location request answered, whether it called  *)
(* computePasses and whether it rendered pass cards.                       *)
(***************************************************************************)
MsgFetching == "Fetching ISS orbital data..."
MsgTleFailed == "Failed to fetch orbital data. Try again later."
MsgRequesting == "Requesting your location..."
MsgDenied == "Location access denied. Cannot compute passes."
MsgPassesFor == "Passes for"

HtmlEmpty == ""
HtmlEnableLocation == "Enable location access and try again."
HtmlNoPasses == "No visible passes in the next 48 hours."
HtmlPassCards == "pass-card"

NewRun ==
  [pc |-> "start", fetched |-> "none", located |-> "none",
   computed |-> FALSE, rendered |-> FALSE]

\* the lengths of the list computePasses may return
PassCounts == {0, 2}

\* Step 4: computePasses is called and its passes are rendered;
\* without an element set computePasses returns no pass
Compute(run, tle, n) ==
  LET len == IF tle THEN n ELSE 0
  IN [status |-> MsgPassesFor,
      container |-> IF len = 0 THEN HtmlNoPasses ELSE HtmlPassCards,
      run |-> [run EXCEPT !.pc = "done", !.computed = TRUE,
                          !.rendered = (len > 0)]]

\* Step 3: the location is requested unless it is cached
Locate(run, cont, tle, n) ==
  IF ~userLocation
  THEN [status |-> MsgRequesting, container |-> cont,
        run |-> [run EXCEPT !.pc = "loc"]]
  ELSE Compute(run, tle, n)

AbortsNever(ok) == FALSE

\* if (!ok) { ...; return; }
Aborts(ok) == ~ok

\* the writes of a step of run r to the page and to the run
SetRun(r, upd) ==
  /\ statusText' = upd.status
  /\ container' = upd.container
  /\ runs' = IF r > Len(runs)
             THEN Append(runs, upd.run)
             ELSE [runs EXCEPT ![r] = upd.run]

passLocals == <<pc, now, t, inPass, currentPass, maxEl, passes, result, prof>>

\* what no handler of the drawers and of the predictions module writes
panelFrame == <<trailVars, passLocals, clock, mpc, midx, active, upcoming,
                anchored, soundVars, sideVars, sunVars, env>>

\* the timeout set by a click on #btn-passes fires: Step 1, and Step 2 up
\* to the await of fetchTLE
InitPassPrediction ==
  /\ timers.pass > 0
  /\ timers' = [timers EXCEPT !.pass = @ - 1]
  /\ \E n \in env.counts :
       SetRun(Len(runs) + 1,
              IF ~tleData
              THEN [status |-> MsgFetching, container |-> HtmlEmpty,
                    run |-> [NewRun EXCEPT !.pc = "tle"]]
              ELSE Locate(NewRun, HtmlEmpty, tleData, n))
  /\ UNCHANGED <<tleData, userLocation, tleSets, clicks>>
  /\ UNCHANGED <<meteorContent, badge, computations, mnow, shown>>
  /\ UNCHANGED drawerVars
  /\ UNCHANGED panelFrame

\* fetchTLE answers run r: ok when the element set was parsed and cached
TleAnswered ==
  \E r \in 1..Len(runs), ok \in env.answers, n \in env.counts :
    /\ runs[r].pc = "tle"
    /\ tleData' = (tleData \/ ok)
    /\ tleSets' = IF ok THEN tleSets + 1 ELSE tleSets
    /\ LET run == [runs[r] EXCEPT !.fetched = IF ok THEN "ok" ELSE "failed"]
       IN SetRun(r, IF Aborts(ok)
                    THEN [status |-> MsgTleFailed, container |-> container,
                          run |-> [run EXCEPT !.pc = "done"]]
                    ELSE Locate(run, container, tleData', n))
    /\ UNCHANGED <<userLocation, timers, clicks>>
    /\ UNCHANGED <<meteorContent, badge, computations, mnow, shown>>
    /\ UNCHANGED drawerVars
    /\ UNCHANGED panelFrame

\* requestLocation answers run r: the position, or a refusal or an error
LocationAnswered ==
  \E r \in 1..Len(runs), ok \in env.answers, n \in env.counts :
    /\ runs[r].pc = "loc"
    /\ userLocation' = (userLocation \/ ok)
    /\ LET run == [runs[r] EXCEPT !.located = IF ok THEN "ok" ELSE "failed"]
       IN SetRun(r, IF ok
                    THEN Compute(run, tleData, n)
                    ELSE [status |-> MsgDenied,
                          container |-> HtmlEnableLocation,
                          run |-> [run EXCEPT !.pc = "done"]])
    /\ UNCHANGED <<tleData, tleSets, timers, clicks>>
    /\ UNCHANGED <<meteorContent, badge, computations, mnow, shown>>
    /\ UNCHANGED drawerVars
    /\ UNCHANGED panelFrame

(***************************************************************************)
(* initMeteorShower, the page-load badge, and the clicks that set timers.  *)
(***************************************************************************)
\* the forEach of getActiveAndUpcomingShowers from row n on, in one piece
\* the forEach callback on one shower, its dates computed, and the lists
Visit(shower, start, end, peak, nowV, lists) ==
  IF IsActive(nowV, start, end)
  THEN [lists EXCEPT !.active =
          Push(@, [shower |-> shower, isPeak |-> IsPeak(nowV, peak),
                   daysUntilPeak |-> CeilDiv(peak - nowV, HoursPerDay)])]
  ELSE IF IsUpcoming(CeilDiv(start - nowV, HoursPerDay))
       THEN [lists EXCEPT !.upcoming =
               Push(@, [shower |-> shower,
                        daysUntilStart |->
                          CeilDiv(start - nowV, HoursPerDay)])]
       ELSE lists

\* the forEach of getActiveAndUpcomingShowers from row n on, in one piece
RECURSIVE ShowerFold(_, _, _, _)
ShowerFold(date, nowV, n, lists) ==
  IF n > Len(METEOR_SHOWERS)
  THEN lists
  ELSE LET a == Anchor(METEOR_SHOWERS[n], date)
       IN ShowerFold(date, nowV, n + 1,
            Visit(METEOR_SHOWERS[n], a.start, a.end, a.peak, nowV, lists))

GetActiveAndUpcomingShowers(date) ==
  ShowerFold(date, ValueOf(date), 1, [active |-> <<>>, upcoming |-> <<>>])

\* updateMeteorBadge(activeShowers)
MeteorBadge(activeShowers) ==
  IF Len(activeShowers) = 0 THEN "none"
  ELSE IF \E k \in 1..Len(activeShowers) : activeShowers[k].isPeak
       THEN "toolbar__badge--peak"
       ELSE "toolbar__badge"

HtmlNoShowers == "No meteor showers active or upcoming in the next 60 days."
HtmlMeteorCards == "meteor-card"

\* the timeout set by a click on #btn-meteor fires
InitMeteorShower ==
  /\ timers.meteor > 0
  /\ timers' = [timers EXCEPT !.meteor = @ - 1]
  /\ LET got == GetActiveAndUpcomingShowers(clock)
     IN /\ mnow' = clock
        /\ shown' = got
        /\ meteorContent' =
             IF Len(got.active) = 0 /\ Len(got.upcoming) = 0
             THEN HtmlNoShowers ELSE HtmlMeteorCards
        /\ badge' = MeteorBadge(got.active)
  /\ computations' = computations + 1
  /\ UNCHANGED <<tleData, userLocation, runs, statusText, container, clicks,
                 tleSets>>
  /\ UNCHANGED drawerVars
  /\ UNCHANGED panelFrame

\* the timeout set when the module is loaded fires: the badge is set
PageLoadBadge ==
  /\ timers.badge
  /\ timers' = [timers EXCEPT !.badge = FALSE]
  /\ LET got == GetActiveAndUpcomingShowers(clock)
     IN /\ mnow' = clock
        /\ shown' = got
        /\ badge' = MeteorBadge(got.active)
  /\ computations' = computations + 1
  /\ UNCHANGED <<tleData, userLocation, runs, statusText, container,
                 meteorContent, clicks, tleSets>>
  /\ UNCHANGED drawerVars
  /\ UNCHANGED panelFrame

\* the timeouts the click listeners of the predictions module set
Scheduled(tm, id) ==
  IF id = PassesDrawer THEN [tm EXCEPT !.pass = @ + 1]
  ELSE IF id = MeteorDrawer THEN [tm EXCEPT !.meteor = @ + 1]
  ELSE tm

\* a click on the drawer button of drawer id: the listener of the drawer
\* system, then the listener of the predictions module
ClickDrawerBtn ==
  \E id \in env.drawers :
    /\ clicks < MaxClicks
    /\ clicks' = clicks + 1
    /\ SetDrawerState(OpenDrawer(DrawerState, id))
    /\ InitSpeedBars(DrawerState, id)
    /\ timers' = Scheduled(timers, id)
    /\ UNCHANGED <<tleData, userLocation, runs, statusText, container,
                   meteorContent, badge, tleSets, computations, mnow, shown>>
    /\ UNCHANGED panelFrame

\* a click on a close button of a drawer
ClickCloseBtn ==
  /\ env.close
  /\ clicks < MaxClicks
  /\ clicks' = clicks + 1
  /\ SetDrawerState(CloseDrawer(DrawerState))
  /\ UNCHANGED <<speedInitialized, tleData, userLocation, runs, statusText,
                 container, meteorContent, badge, timers, tleSets,
                 computations, mnow, shown>>
  /\ UNCHANGED panelFrame

PredictIdle ==
  /\ userLocation = FALSE
  /\ runs = <<>>
  /\ statusText = ""
  /\ container = HtmlEmpty
  /\ meteorContent = HtmlEmpty
  /\ badge = "none"
  /\ timers = [pass |-> 0, meteor |-> 0, badge |-> TRUE]
  /\ clicks = 0
  /\ tleSets = 0
  /\ computations = 0

(***************************************************************************)
(* Ambient sound                                                           *)
(***************************************************************************)
NoContext == 0

\* a session in which no button is clicked
NoSession == [drawers |-> {}, close |-> FALSE, answers |-> {}, counts |-> {}]

SoundIdle ==
  /\ audioCtx = NoContext
  /\ contexts = <<>>
  /\ audioNodes = FALSE
  /\ soundActive = FALSE
  /\ closeTimers = 0

(***************************************************************************)
(* Ambient sound. contexts lists the audio contexts created so far, each   *)
(* "running" or "closed"; audioCtx is the index of the one the variable    *)
(* refers to, or NoContext for null; audioNodes tells whether the node     *)
(* table has a masterGain; closeTimers counts the pending timeouts.        *)
(***************************************************************************)
soundFrame == <<trailVars, passVars, meteorVars, drawerVars, predictVars,
                sideVars, sunVars, env>>

\* createAmbientSound: a new context replaces whatever audioCtx held
CreateAmbientSound ==
  /\ contexts' = Append(contexts, "running")
  /\ audioCtx' = Len(contexts) + 1
  /\ audioNodes' = TRUE

\* a click on the sound button
ToggleSound ==
  /\ IF soundActive
     THEN /\ closeTimers' = IF audioNodes THEN closeTimers + 1
                            ELSE closeTimers
          /\ soundActive' = FALSE
          /\ UNCHANGED <<audioCtx, contexts, audioNodes>>
     ELSE /\ Len(contexts) < MaxContexts
          /\ CreateAmbientSound
          /\ soundActive' = TRUE
          /\ UNCHANGED closeTimers
  /\ UNCHANGED soundFrame

\* the timeout of a toggle-off, 2 s later: it closes whatever context
\* audioCtx refers to by then
CloseTimerFires ==
  /\ closeTimers > 0
  /\ closeTimers' = closeTimers - 1
  /\ IF audioCtx # NoContext
     THEN /\ contexts' = [contexts EXCEPT ![audioCtx] = "closed"]
          /\ audioCtx' = NoContext
          /\ audioNodes' = FALSE
     ELSE UNCHANGED <<audioCtx, contexts, audioNodes>>
  /\ UNCHANGED soundActive
  /\ UNCHANGED soundFrame

(***************************************************************************)
(* The geocoder and the crew fetch, as far as they fail.                   *)
(***************************************************************************)
\* getApproxLocation(lat, lng)
GetApproxLocation(lat, lng) ==
  IF lat > 66 THEN "Arctic Region"
  ELSE IF lat < -66 THEN "Antarctic Region"
  ELSE IF lng > 100 /\ lat > 0 /\ lat < 60 THEN "North Pacific Ocean"
  ELSE IF lng > 100 /\ lat <= 0 THEN "South Pacific Ocean"
  ELSE IF lng < -100 /\ lat > 0 THEN "North Pacific Ocean"
  ELSE IF lng < -100 /\ lat <= 0 THEN "South Pacific Ocean"
  ELSE IF lng > -60 /\ lng < -10 /\ lat > 0 /\ lat < 60
  THEN "North Atlantic Ocean"
  ELSE IF lng > -60 /\ lng < 0 /\ lat <= 0 /\ lat > -55
  THEN "South Atlantic Ocean"
  ELSE IF lng > 40 /\ lng <= 100 /\ lat <= 0 /\ lat > -55 THEN "Indian Ocean"
  ELSE IF lng > 60 /\ lng <= 100 /\ lat > 0 /\ lat < 25 THEN "Indian Ocean"
  ELSE IF lng > -10 /\ lng < 40 /\ lat > 35 /\ lat < 66 THEN "Europe"
  ELSE IF lng > -20 /\ lng < 55 /\ lat > -35 /\ lat < 35 THEN "Africa"
  ELSE IF lng > 40 /\ lng < 65 /\ lat > 10 /\ lat < 45 THEN "Middle East"
  ELSE IF lng > 65 /\ lng <= 100 /\ lat > 25 /\ lat < 55 THEN "Central Asia"
  ELSE IF lng > 100 /\ lng < 145 /\ lat > 10 /\ lat < 55 THEN "East Asia"
  ELSE IF lng > 65 /\ lng <= 100 /\ lat > 5 /\ lat <= 25 THEN "South Asia"
  ELSE IF lng > 100 /\ lng < 180 /\ lat > -15 /\ lat <= 10
  THEN "Southeast Asia"
  ELSE IF lng > 110 /\ lng < 180 /\ lat > -50 /\ lat <= -10 THEN "Oceania"
  ELSE IF lng > -130 /\ lng < -60 /\ lat > 15 /\ lat < 55
  THEN "North America"
  ELSE IF lng > -60 /\ lng < -30 /\ lat > 0 /\ lat < 20 THEN "Caribbean"
  ELSE IF lng > -120 /\ lng < -60 /\ lat > 5 /\ lat <= 15
  THEN "Central America"
  ELSE IF lng > -85 /\ lng < -30 /\ lat > -55 /\ lat <= 5
  THEN "South America"
  ELSE "Over the Ocean"

NoCrew == "-"

sideFrame == <<trailVars, passVars, meteorVars, drawerVars, predictVars,
               soundVars, sunVars, env>>

\* reverseGeocode, called with a position that was applied, fails: the
\* catch writes the approximate location
ReverseGeocodeFailed ==
  \E k \in 1..Len(fed) :
    /\ currentLocation' = GetApproxLocation(fed[k][1], fed[k][2])
    /\ UNCHANGED crewCount
    /\ UNCHANGED sideFrame

\* fetchAstronauts and fetchAstronautsFallback both fail
AstronautsFailed ==
  /\ globe
  /\ crewCount' = NoCrew
  /\ UNCHANGED currentLocation
  /\ UNCHANGED sideFrame

SideIdle ==
  /\ currentLocation = ""
  /\ crewCount = ""

(***************************************************************************)
(* getSunPosition. Timestamps are in seconds; the solar library is a table *)
(* of the equation of time (minutes) and the declination (degrees).        *)
(***************************************************************************)
\* 864e5 ms
SecondsPerDay == 86400

\* setHours(0, 0, 0, 0) in a zone two hours east of Greenwich
SetLocalMidnight(dt) == dt - ((dt + 7200) % SecondsPerDay)

\* new Date(+dt).setUTCHours(0, 0, 0, 0)
SetUTCMidnight(dt) == dt - (dt % SecondsPerDay)

\* solar.equationOfTime(solar.century(dt)), solar.declination(...)
EquationOfTime(dt) == ephemeris[dt].eot
Declination(dt) == ephemeris[dt].decl

GetSunPosition(dt) ==
  LET day == SetUTCMidnight(dt)
      longitude == ((day - dt) * 360) \div SecondsPerDay - 180
  IN <<longitude - EquationOfTime(dt) \div 4, Declination(dt)>>

\* the timestamps of the calls: the days of the model, and in each day
\* times at which every quotient of getSunPosition is a whole number
SunDays == 0..(MaxSunDays - 1)
DayTimes == {0, 240, 21600, 43200, 64800, 86160}
SunTimes == {d * SecondsPerDay + s : d \in SunDays, s \in DayTimes}

\* the library's answers: the same all day, or changing with the day
Eots == {-16, 0, 8}
Decls == {-23, 0, 23}
Ephemerides ==
  {[ts \in SunTimes |-> [eot |-> e, decl |-> d]] : e \in Eots, d \in Decls}
    \cup {[ts \in SunTimes |->
             [eot |-> 4 * (ts \div SecondsPerDay),
              decl |-> ts \div SecondsPerDay]]}

sunFrame == <<trailVars, passVars, meteorVars, drawerVars, predictVars,
              soundVars, sideVars, env>>

\* a frame of the animation loop with day/night on: the uniform is set
SunTick ==
  \E dt \in SunTimes :
    /\ sunAt' = dt
    /\ sunPosition' = GetSunPosition(dt)
    /\ UNCHANGED ephemeris
    /\ UNCHANGED sunFrame

SunIdle ==
  /\ sunPosition = <<0, 0>>
  /\ sunAt = 0

TrailInit ==
  /\ globe = FALSE
  /\ trailPoints = <<>>
  /\ pathsData = <<>>
  /\ issData = [lat |-> 0, lng |-> 0]
  /\ domCoords = [lat |-> <<>>, lng |-> <<>>]
  /\ updateCount = 0
  /\ outstanding = {}
  /\ ticks = 0
  /\ failures = 0
  /\ fed = <<>>
  /\ completed = <<>>

\* a long run: the trail fills up; fetches are serial and succeed
LongRun ==
  /\ track \in Tracks(LongTrackLen)
  /\ limits = [ticks |-> MaxTicks, outstanding |-> 1, failures |-> 0]

\* a segmentation run: every ground track up to SegTrackLen points
SegRun ==
  /\ track \in Tracks(SegTrackLen)
  /\ limits = [ticks |-> Len(track), outstanding |-> 1, failures |-> 0]

\* a race run: fetches overlap, fail and fall back
RaceRun ==
  /\ track \in Tracks(LongTrackLen)
  /\ limits = [ticks |-> RaceTicks, outstanding |-> MaxOutstanding,
               failures |-> RaceTicks]

Init ==
  /\ TrailInit
  /\ LongRun \/ SegRun \/ RaceRun
  /\ PassIdle
  /\ tleData = FALSE
  /\ now = 0
  /\ prof = Plain(<<>>, "quiet")
  /\ MeteorIdle
  /\ clock = mnow
  /\ DrawerIdle
  /\ PredictIdle
  /\ SoundIdle
  /\ SideIdle
  /\ SunIdle
  /\ ephemeris = <<>>
  /\ env = NoSession

Next ==
  \/ InitGlobe
  \/ Tick
  \/ PrimaryOk
  \/ PrimaryFail
  \/ FallbackOk
  \/ FallbackFail

Spec == Init /\ [][Next]_vars

\* the times at which computePasses may be called
Nows == {1000000}

PassInit ==
  /\ TrailInit
  /\ track = <<<<10, 170>>>>
  /\ limits = [ticks |-> 0, outstanding |-> 0, failures |-> 0]
  /\ PassIdle
  /\ now \in Nows
  /\ \/ tleData = TRUE /\ prof \in Profiles
     \/ tleData = FALSE /\ prof = Plain(<<>>, "quiet")
  /\ MeteorIdle
  /\ clock = mnow
  /\ DrawerIdle
  /\ PredictIdle
  /\ SoundIdle
  /\ SideIdle
  /\ SunIdle
  /\ ephemeris = <<>>
  /\ env = NoSession

PassNext ==
  \/ ComputePassesEnter
  \/ SampleSkipped
  \/ SampleVisible
  \/ SampleClosesPass
  \/ SampleBelow
  \/ ComputePassesReturn

PassSpec == PassInit /\ [][PassNext]_vars

\* the hours of the day at which the clock is read
Hours == {0, 1, 12, 23}

\* the clock shows any day of the years, at one of the hours
Clocks ==
  {[year |-> y, month |-> m, day |-> d, hour |-> h] :
     y \in Years, m \in 1..12, d \in 1..31, h \in Hours}

MeteorInit ==
  /\ TrailInit
  /\ track = <<<<10, 170>>>>
  /\ limits = [ticks |-> 0, outstanding |-> 0, failures |-> 0]
  /\ PassIdle
  /\ tleData = FALSE
  /\ now = 0
  /\ prof = Plain(<<>>, "quiet")
  /\ MeteorIdle
  /\ clock \in {c \in Clocks : c.day <= DaysInMonth(c.year, c.month)}
  /\ DrawerIdle
  /\ PredictIdle
  /\ SoundIdle
  /\ SideIdle
  /\ SunIdle
  /\ ephemeris = <<>>
  /\ env = NoSession

MeteorNext ==
  \/ ShowersEnter
  \/ ShowerEach
  \/ ShowersReturn

MeteorSpec == MeteorInit /\ [][MeteorNext]_vars

\* the clock of a session: a day with a shower at its peak, a day with no
\* shower active or upcoming
PeakClock == [year |-> 2025, month |-> 8, day |-> 12, hour |-> 12]
QuietClock == [year |-> 2025, month |-> 2, day |-> 1, hour |-> 12]
PanelClocks == {PeakClock, QuietClock}

\* the user clicks every drawer button and the close button; the network
\* answers every request
DrawerSession ==
  /\ clock \in PanelClocks
  /\ env = [drawers |-> Drawers, close |-> TRUE, answers |-> {TRUE},
            counts |-> {2}]

\* the user clicks #btn-passes only; the requests succeed or fail
PredictSession ==
  /\ clock = PeakClock
  /\ env = [drawers |-> {PassesDrawer}, close |-> FALSE, answers |-> BOOLEAN,
            counts |-> PassCounts]

PanelInit ==
  /\ TrailInit
  /\ track = <<<<10, 170>>>>
  /\ limits = [ticks |-> 0, outstanding |-> 0, failures |-> 0]
  /\ PassIdle
  /\ tleData = FALSE
  /\ now = 0
  /\ prof = Plain(<<>>, "quiet")
  /\ MeteorIdle
  /\ DrawerIdle
  /\ PredictIdle
  /\ SoundIdle
  /\ SideIdle
  /\ SunIdle
  /\ ephemeris = <<>>
  /\ DrawerSession \/ PredictSession

PanelNext ==
  \/ ClickDrawerBtn
  \/ ClickCloseBtn
  \/ InitPassPrediction
  \/ TleAnswered
  \/ LocationAnswered
  \/ InitMeteorShower
  \/ PageLoadBadge

PanelSpec == PanelInit /\ [][PanelNext]_vars

SunInit ==
  /\ TrailInit
  /\ track = <<<<10, 170>>>>
  /\ limits = [ticks |-> 0, outstanding |-> 0, failures |-> 0]
  /\ PassIdle
  /\ tleData = FALSE
  /\ now = 0
  /\ prof = Plain(<<>>, "quiet")
  /\ MeteorIdle
  /\ clock = mnow
  /\ DrawerIdle
  /\ PredictIdle
  /\ SoundIdle
  /\ SideIdle
  /\ SunIdle
  /\ ephemeris \in Ephemerides
  /\ env = NoSession

SunNext == SunTick

SunSpec == SunInit /\ [][SunNext]_vars

SoundInit ==
  /\ TrailInit
  /\ track = <<<<10, 170>>>>
  /\ limits = [ticks |-> 0, outstanding |-> 0, failures |-> 0]
  /\ PassIdle
  /\ tleData = FALSE
  /\ now = 0
  /\ prof = Plain(<<>>, "quiet")
  /\ MeteorIdle
  /\ clock = mnow
  /\ DrawerIdle
  /\ PredictIdle
  /\ SoundIdle
  /\ SideIdle
  /\ SunIdle
  /\ ephemeris = <<>>
  /\ env = NoSession

SoundNext ==
  \/ ToggleSound
  \/ CloseTimerFires

SoundSpec == SoundInit /\ [][SoundNext]_vars

\* a short session: the position is polled SessionTicks times, either
\* endpoint may fail, and the user opens the passes drawer while the
\* element-set fetch fails
SessionInit ==
  /\ TrailInit
  /\ track = <<<<10, 170>>, <<10, -175>>>>
  /\ limits = [ticks |-> SessionTicks, outstanding |-> 1,
               failures |-> SessionTicks]
  /\ PassIdle
  /\ tleData = FALSE
  /\ now = 0
  /\ prof = Plain(<<>>, "quiet")
  /\ MeteorIdle
  /\ clock = PeakClock
  /\ DrawerIdle
  /\ PredictIdle
  /\ SoundIdle
  /\ SideIdle
  /\ SunIdle
  /\ ephemeris = <<>>
  /\ env = [drawers |-> {PassesDrawer}, close |-> FALSE, answers |-> {FALSE},
            counts |-> {0}]

SessionNext ==
  \/ InitGlobe
  \/ Tick
  \/ PrimaryOk
  \/ PrimaryFail
  \/ FallbackOk
  \/ FallbackFail
  \/ ReverseGeocodeFailed
  \/ AstronautsFailed
  \/ ClickDrawerBtn
  \/ InitPassPrediction
  \/ TleAnswered

\* the timers fire and every fetch is answered or fails
SessionSpec ==
  /\ SessionInit
  /\ [][SessionNext]_vars
  /\ WF_vars(InitGlobe)
  /\ WF_vars(Tick)
  /\ WF_vars(PrimaryOk \/ PrimaryFail)
  /\ WF_vars(FallbackOk \/ FallbackFail)

(***************************************************************************)
(* The trail buffer and its segmentation                                   *)
(***************************************************************************)
\* the indices i at which trail entries i and i + 1 are more than 180
\* degrees of longitude apart
Jumps(tp) == {i \in 1..(Len(tp) - 1) : Abs(tp[i + 1][2] - tp[i][2]) > 180}

\* the number of points in the first n segments
RECURSIVE PointsIn(_, _)
PointsIn(segs, n) ==
  IF n = 0 THEN 0 ELSE PointsIn(segs, n - 1) + Len(segs[n].coords)

\* the trail positions after which a displayed segment ends
SegmentEnds(segs) == {PointsIn(segs, n) : n \in 1..Len(segs)}

\* C1: after any sequence of addTrailPoint calls, from the primary or the
\* fallback fetch, the trail buffer never holds more than TRAIL_MAX = 60
\* entries.
C1_TrailBounded == Len(trailPoints) <= TRAIL_MAX

\* the 61st point has arrived and the buffer is full
C1_Witness == Len(fed) > TRAIL_MAX /\ Len(trailPoints) = TRAIL_MAX

\* C2: addTrailPoint is FIFO: after n calls the buffer is the last
\* min(n, 60) points handed to it, in arrival order; after the 61st call it
\* is p2..p61.
C2_TrailFifo ==
  LET n == Len(fed)
  IN trailPoints = SubSeq(fed, n - Min(n, TRAIL_MAX) + 1, n)

\* the 61st call has evicted p1: the buffer now starts at p2, another point
C2_Witness ==
  /\ Len(fed) = TRAIL_MAX + 1
  /\ trailPoints = SubSeq(fed, 2, TRAIL_MAX + 1)
  /\ fed[1] # fed[2]

\* C3: no displayed segment holds two consecutive points more than 180
\* degrees of longitude apart, and wherever two consecutive trail entries
\* are that far apart a segment ends between them.
C3_NoJumpInsideSegment ==
  Len(trailPoints) >= 2 =>
    /\ \A n \in 1..Len(pathsData) :
         \A k \in 1..(Len(pathsData[n].coords) - 1) :
           Abs(pathsData[n].coords[k + 1][2] - pathsData[n].coords[k][2])
             <= 180
    /\ Jumps(trailPoints) \subseteq SegmentEnds(pathsData)

\* a trail with an antimeridian crossing has been segmented
C3_Witness ==
  /\ Len(trailPoints) >= 3
  /\ Jumps(trailPoints) # {}
  /\ Len(pathsData) >= 2

\* C4: a trail of two or more points is displayed as at least one segment;
\* a trail of exactly one point as none, the path list stays empty.
C4_SegmentsExist ==
  /\ Len(trailPoints) >= 2 => Len(pathsData) >= 1
  /\ Len(trailPoints) = 1 => pathsData = <<>>

\* the first point has arrived on the globe and nothing is drawn
C4_Witness == globe /\ Len(trailPoints) = 1 /\ pathsData = <<>>

\* C5: for a trail of two or more points the number of segments is one plus
\* the number of consecutive pairs more than 180 degrees apart (a jump of
\* exactly 180 does not split); [(10,170),(10,175),(10,-179),(10,-175)]
\* gives [(10,170),(10,175)] and [(10,-179),(10,-175)].
C5_SegmentCount ==
  /\ Len(trailPoints) >= 2 =>
       Len(pathsData) = 1 + Cardinality(Jumps(trailPoints))
  /\ trailPoints = <<<<10, 170>>, <<10, 175>>, <<10, -179>>, <<10, -175>>>>
       => pathsData = <<[coords |-> <<<<10, 170>>, <<10, 175>>>>],
                        [coords |-> <<<<10, -179>>, <<10, -175>>>>]>>

\* the scenario's four points have arrived
C5_Witness ==
  /\ trailPoints = <<<<10, 170>>, <<10, 175>>, <<10, -179>>, <<10, -175>>>>
  /\ Len(pathsData) = 2

(***************************************************************************)
(* computePasses against the elevation profile                             *)
(***************************************************************************)
MaxOf(S) == CHOOSE m \in S : \A x \in S : x <= m
MinOf(S) == CHOOSE m \in S : \A x \in S : m <= x

\* sample i has a position and is at or above / below the minimum
Above(i) == SampleAt(i).valid /\ SampleAt(i).el >= MIN_ELEVATION_DEG
Below(i) == SampleAt(i).valid /\ SampleAt(i).el < MIN_ELEVATION_DEG

\* the last sample up to i that has a position, -1 if none
RECURSIVE LastValidUpTo(_)
LastValidUpTo(i) ==
  IF i < 0 THEN -1
  ELSE IF SampleAt(i).valid THEN i ELSE LastValidUpTo(i - 1)

\* the samples with a position from s to e
ValidIn(s, e) == {k \in s..e : SampleAt(k).valid}

\* the pass that the samples from s to e make up
PassOver(s, e) ==
  LET mx == MaxOf({SampleAt(k).el : k \in ValidIn(s, e)})
  IN [start |-> TimeOf(s), startAz |-> AzAt(s),
      maxEl |-> mx,
      maxElTime |-> TimeOf(MinOf({k \in ValidIn(s, e) : SampleAt(k).el = mx})),
      end |-> TimeOf(e), endAz |-> AzAt(e)]

\* the samples looked at for the first qualifying intervals of a profile
RefHorizon == FreeSamples + 12

\* the samples that close a qualifying interval: below the minimum, the
\* sample with a position before them at or above it
Closers ==
  {c \in 1..RefHorizon :
     Below(c) /\ LastValidUpTo(c - 1) >= 0 /\ Above(LastValidUpTo(c - 1))}

NthCloser(n) ==
  CHOOSE c \in Closers : Cardinality({d \in Closers : d < c}) = n - 1

\* the qualifying interval that sample c closes
IntervalClosedAt(c) ==
  LET e == LastValidUpTo(c - 1)
      s == MinOf({j \in ValidIn(0, e) : \A k \in ValidIn(j, e) : Above(k)})
  IN PassOver(s, e)

\* C6: computePasses returns at most 5 passes; when more than 5 qualifying
\* intervals close inside the window the result is the first 5 of them in
\* time order, and sampling stops at the sample that closes the fifth.
C6_AtMostFivePasses ==
  /\ Len(passes) <= MaxPasses
  /\ Len(result) <= MaxPasses
  /\ (pc = "done" /\ tleData /\ Cardinality(Closers) > MaxPasses) =>
       /\ result = [n \in 1..MaxPasses |-> IntervalClosedAt(NthCloser(n))]
       /\ t = TimeOf(NthCloser(MaxPasses))

\* a profile with more than 5 qualifying intervals has been cut at the fifth
C6_Witness ==
  /\ pc = "done"
  /\ Cardinality(Closers) > MaxPasses
  /\ Len(result) = MaxPasses
  /\ InWindow(t)

C8_OpensOnUpwardCrossing ==
  [][(~inPass /\ inPass') =>
       /\ Above(Idx(t))
       /\ LastValidUpTo(Idx(t) - 1) >= 0
       /\ Below(LastValidUpTo(Idx(t) - 1))
       /\ currentPass'.start = t
       /\ currentPass'.maxEl = SampleAt(Idx(t)).el
       /\ currentPass'.maxElTime = t]_vars

\* C8, amended: a pass opens only at a sample at or above the minimum whose
\* preceding sample with a position was below the minimum or that is the
\* first sample with a position of the window, and the pass opened has
\* start = t, maxEl = the elevation at t, maxElTime = t.
C8_OpensOnCrossingOrAtStart ==
  [][(~inPass /\ inPass') =>
       /\ Above(Idx(t))
       /\ \/ LastValidUpTo(Idx(t) - 1) < 0
          \/ Below(LastValidUpTo(Idx(t) - 1))
       /\ currentPass'.start = t
       /\ currentPass'.startAz = AzAt(Idx(t))
       /\ currentPass'.maxEl = SampleAt(Idx(t)).el
       /\ maxEl' = SampleAt(Idx(t)).el
       /\ currentPass'.maxElTime = t]_vars

\* a pass has just been opened by an upward crossing
C8_Witness ==
  /\ pc = "loop"
  /\ inPass
  /\ currentPass.start = t - stepMs
  /\ LastValidUpTo(Idx(t) - 2) >= 0
  /\ Below(LastValidUpTo(Idx(t) - 2))

\* C9: while in a pass, after each sample taken the open pass has end = t
\* and endAz = the azimuth at t, its maxEl is the maximum elevation of the
\* samples since the pass was opened and maxElTime the time of the first
\* sample that attains it. (t is the sample last taken with a position.)
C9_OpenPassTracksSamples ==
  inPass =>
    LET s == Idx(currentPass.start)
        e == LastValidUpTo(Idx(t) - 1)
    IN /\ currentPass = PassOver(s, e)
       /\ maxEl = currentPass.maxEl

\* an open pass whose maximum was attained again by a later sample
C9_Witness ==
  /\ pc = "loop"
  /\ inPass
  /\ \E k \in (Idx(currentPass.maxElTime) + 1)..Idx(currentPass.end) :
       SampleAt(k).valid /\ SampleAt(k).el = currentPass.maxEl

\* C10: a pass is appended to the result only when a sample below the
\* minimum ends it; a pass still open when the window is exhausted is
\* discarded and is not in the result.
C10_AppendedOnlyWhenClosed ==
  [][/\ passes' # passes =>
          /\ inPass /\ ~inPass'
          /\ Below(Idx(t))
          /\ passes' = Append(passes, currentPass)
     /\ (pc # "done" /\ pc' = "done" /\ tleData) =>
          /\ result' = passes
          /\ inPass =>
               \A n \in 1..Len(result') :
                 result'[n].start # currentPass.start]_vars

\* the window was exhausted with a pass open: it is not in the result
C10_Witness ==
  /\ pc = "done"
  /\ ~InWindow(t)
  /\ inPass
  /\ currentPass.end = t - stepMs

\* the samples with a position among samples 0..n, in order, as the loop
\* sees them: time, elevation, azimuth
RECURSIVE PositionsUpTo(_)
PositionsUpTo(n) ==
  IF n < 0 THEN <<>>
  ELSE IF SampleAt(n).valid
       THEN Append(PositionsUpTo(n - 1),
                   [at |-> TimeOf(n), el |-> SampleAt(n).el, az |-> AzAt(n)])
       ELSE PositionsUpTo(n - 1)

\* the passes of a run over the samples ss from the k-th on, none of which
\* lacks a position; open is <<>> or holds the open pass
RECURSIVE PassesOver(_, _, _, _)
PassesOver(ss, k, open, ps) ==
  IF k > Len(ss) \/ Len(ps) >= MaxPasses THEN ps
  ELSE LET x == ss[k]
       IN IF x.el >= MIN_ELEVATION_DEG
          THEN LET cp == IF open = <<>>
                         THEN [start |-> x.at, startAz |-> x.az,
                               maxEl |-> x.el, maxElTime |-> x.at,
                               end |-> x.at, endAz |-> x.az]
                         ELSE open[1]
                   up == IF x.el > cp.maxEl
                         THEN [cp EXCEPT !.maxEl = x.el, !.maxElTime = x.at]
                         ELSE cp
               IN PassesOver(ss, k + 1,
                             <<[up EXCEPT !.end = x.at, !.endAz = x.az]>>, ps)
          ELSE IF open # <<>>
               THEN PassesOver(ss, k + 1, <<>>, Append(ps, open[1]))
               ELSE PassesOver(ss, k + 1, <<>>, ps)

\* C11: a sample without a position is skipped and leaves inPass,
\* currentPass, maxEl and the passes collected unchanged, so the result is
\* the result of the run over the profile's samples without it.
C11_SkippedSampleChangesNothing ==
  /\ [][(pc = "loop" /\ InWindow(t) /\ ~SampleAt(Idx(t)).valid) =>
          /\ UNCHANGED <<inPass, currentPass, maxEl, passes, pc, result>>
          /\ t' = t + stepMs]_vars
  /\ [](pc = "done" /\ tleData /\ prof.rest \in {"train", "dead"} =>
          result = PassesOver(PositionsUpTo(RefHorizon), 1, <<>>, <<>>))

\* a returned pass spans a sample that had no position
C11_Witness ==
  /\ pc = "done"
  /\ \E n \in 1..Len(result) :
       \E i \in (Idx(result[n].start) + 1)..(Idx(result[n].end) - 1) :
         ~SampleAt(i).valid

\* C12: the passes returned are ordered by time and do not overlap: of two
\* consecutive passes the first ends strictly before the second starts.
C12_PassesOrdered ==
  /\ \A n \in 1..(Len(passes) - 1) : passes[n].end < passes[n + 1].start
  /\ \A n \in 1..(Len(result) - 1) : result[n].end < result[n + 1].start

\* several passes have been returned
C12_Witness == pc = "done" /\ Len(result) >= 2

\* C13: without a cached element set computePasses returns an empty list at
\* once: the loop is never entered, no sample is propagated.
C13_NoElementSetNoPasses ==
  ~tleData =>
    /\ pc \in {"idle", "done"}
    /\ result = <<>>
    /\ passes = <<>>
    /\ t = 0

\* computePasses has returned without an element set
C13_Witness == ~tleData /\ pc = "done" /\ result = <<>>


(***************************************************************************)
(* Meteor showers, stated on the calendar: a day of the year is the pair   *)
(* <<month, day>>, and days are compared month first.                      *)
(***************************************************************************)
MonthDay(mmdd) == <<10 * mmdd[1] + mmdd[2], 10 * mmdd[3] + mmdd[4]>>
Today(date) == <<date.month, date.day>>
Earlier(a, b) == a[1] < b[1] \/ (a[1] = b[1] /\ a[2] < b[2])

\* the date is at or after the midnight that begins the day md
AtOrAfter(date, md) == ~Earlier(Today(date), md)
\* the date is at or before the midnight that begins the day md
AtOrBefore(date, md) ==
  \/ Earlier(Today(date), md)
  \/ Today(date) = md /\ date.hour = 0

SpansYearEnd(shower) == Earlier(MonthDay(shower.end), MonthDay(shower.start))

\* start <= now <= end, the shower's dates anchored around the date
ActiveOn(shower, date) ==
  IF SpansYearEnd(shower)
  THEN IF date.month <= 6
       THEN AtOrBefore(date, MonthDay(shower.end))
       ELSE AtOrAfter(date, MonthDay(shower.start))
  ELSE /\ AtOrAfter(date, MonthDay(shower.start))
       /\ AtOrBefore(date, MonthDay(shower.end))

\* the table rows a list holds, in the list's order
Rows(list) ==
  [k \in 1..Len(list) |->
     CHOOSE n \in 1..Len(METEOR_SHOWERS) : METEOR_SHOWERS[n] = list[k].shower]
Listed(list, n) == \E k \in 1..Len(list) : Rows(list)[k] = n

\* C14: for every shower of the table and every now, the shower is listed
\* as active exactly when start <= now <= end, start and end being the
\* midnights of the shower's month-day dates in now's year, re-anchored
\* for a shower that spans the year's end.
C14_ActiveWithinDates ==
  mpc = "done" =>
    \A n \in 1..Len(METEOR_SHOWERS) :
      Listed(shown.active, n) <=> ActiveOn(METEOR_SHOWERS[n], mnow)

\* a shower is active at the midnight of its end date, another is past it
C14_Witness ==
  /\ mpc = "done"
  /\ \E n \in 1..Len(METEOR_SHOWERS) :
       /\ Listed(shown.active, n)
       /\ Today(mnow) = MonthDay(METEOR_SHOWERS[n].end)
       /\ mnow.hour = 0
  /\ \E n \in 1..Len(METEOR_SHOWERS) :
       /\ ~Listed(shown.active, n)
       /\ ~Listed(shown.upcoming, n)


\* the anchored time lies in the calendar year y
InYear(time, y) ==
  /\ NewDate(y, 0, 1) <= time
  /\ time < NewDate(y + 1, 0, 1)

Quadrantids == CHOOSE n \in 1..Len(METEOR_SHOWERS) :
                 METEOR_SHOWERS[n].name = "Quadrantids"

\* C15: the Quadrantids (start 12-28, end 01-12) are reported active both
\* on 5 January and on 29 December; a shower whose end date precedes its
\* start date has its start in the previous year when now is in January
\* to June, and its end and peak in the next year otherwise, while the
\* dates of every other shower stay in now's year.
C15_YearWrap ==
  /\ mpc = "done" /\ Today(mnow) \in {<<1, 5>>, <<12, 29>>} =>
       Listed(shown.active, Quadrantids)
  /\ \A n \in 1..Len(anchored) :
       LET a == anchored[n]
           y == mnow.year
       IN IF ~SpansYearEnd(METEOR_SHOWERS[n])
          THEN InYear(a.start, y) /\ InYear(a.end, y) /\ InYear(a.peak, y)
          ELSE IF mnow.month <= 6
               THEN /\ InYear(a.start, y - 1)
                    /\ InYear(a.end, y) /\ InYear(a.peak, y)
               ELSE /\ InYear(a.start, y)
                    /\ InYear(a.end, y + 1) /\ InYear(a.peak, y + 1)

\* on 29 December the Quadrantids are active, their end being next year
C15_Witness ==
  /\ mpc = "done"
  /\ Today(mnow) = <<12, 29>>
  /\ Listed(shown.active, Quadrantids)
  /\ InYear(anchored[Quadrantids].end, mnow.year + 1)


\* the hours between the date and the peak computed for row n of the table
FromPeak(date, n) == Abs(ValueOf(date) - anchored[n].peak)

\* the date falls on the peak day, or on the day before it after midnight
\* (no peak of the table is the first day of a month)
AroundPeakDay(shower, date) ==
  LET pk == MonthDay(shower.peak)
  IN \/ Today(date) = pk
     \/ Today(date) = <<pk[1], pk[2] - 1>> /\ date.hour >= 1

\* C16: an active shower is marked isPeak = TRUE exactly when now is less
\* than 24 hours from the shower's peak, before or after it; at 25 hours
\* from the peak isPeak is FALSE.
C16_PeakWithinADay ==
  \A k \in 1..Len(active) :
    LET n == Rows(active)[k]
    IN /\ active[k].isPeak <=> FromPeak(mnow, n) < HoursPerDay
       /\ active[k].isPeak <=> AroundPeakDay(METEOR_SHOWERS[n], mnow)
       /\ FromPeak(mnow, n) = HoursPerDay + 1 => ~active[k].isPeak

\* an active shower is at its peak 23 hours after the peak's midnight
C16_Witness ==
  /\ mpc = "done"
  /\ \E k \in 1..Len(shown.active) :
       /\ shown.active[k].isPeak
       /\ FromPeak(mnow, Rows(shown.active)[k]) = HoursPerDay - 1


\* a number of hours in days, rounded up: the least d with d days >= hours
DaysRoundedUp(hours) ==
  LET most == Abs(hours) \div HoursPerDay + 1
  IN CHOOSE d \in (-most)..most :
       /\ d * HoursPerDay >= hours
       /\ (d - 1) * HoursPerDay < hours

\* the days from the date to the start computed for row n, rounded up
DaysUntilStart(date, n) == DaysRoundedUp(anchored[n].start - ValueOf(date))

\* C17: a shower is listed as upcoming exactly when it is not active and
\* 0 < daysUntilStart <= 60, daysUntilStart being the days from now to the
\* shower's start rounded up, which is also what the entry carries.
C17_UpcomingWithinSixtyDays ==
  mpc = "done" =>
    /\ \A n \in 1..Len(METEOR_SHOWERS) :
         Listed(shown.upcoming, n) <=>
           /\ ~Listed(shown.active, n)
           /\ 0 < DaysUntilStart(mnow, n)
           /\ DaysUntilStart(mnow, n) <= 60
    /\ \A k \in 1..Len(shown.upcoming) :
         shown.upcoming[k].daysUntilStart =
           DaysUntilStart(mnow, Rows(shown.upcoming)[k])

\* a shower starts in 59 days and some hours: it is upcoming, in 60 days
C17_Witness ==
  /\ mpc = "done"
  /\ mnow.hour # 0
  /\ \E k \in 1..Len(shown.upcoming) : shown.upcoming[k].daysUntilStart = 60


\* the rows of a list are strictly increasing: table order, no row twice
InTableOrder(list) ==
  \A j, k \in 1..Len(list) : j < k => Rows(list)[j] < Rows(list)[k]

\* C18: for every now, the active list and the upcoming list are each in
\* the order of the table, no shower of the 10-row table is in a list
\* twice, and no shower is in both lists.
C18_ListsInTableOrder ==
  /\ Len(METEOR_SHOWERS) = 10
  /\ \A list \in {active, upcoming, shown.active, shown.upcoming} :
       InTableOrder(list)
  /\ \A n \in 1..Len(METEOR_SHOWERS) :
       /\ ~(Listed(active, n) /\ Listed(upcoming, n))
       /\ ~(Listed(shown.active, n) /\ Listed(shown.upcoming, n))

\* two showers are active and two more are upcoming
C18_Witness ==
  /\ mpc = "done"
  /\ Len(shown.active) >= 2
  /\ Len(shown.upcoming) >= 2


\* the last n entries of a sequence
LastOf(seq, n) == SubSeq(seq, Len(seq) - n + 1, Len(seq))

\* C19: positions are applied to the trail buffer in the order in which
\* the fetches completed, primary or fallback, whatever the order in which
\* they were started: state.trailPoints is the answers of the completed
\* fetches in completion order (the newest TRAIL_MAX of them).
C19_CompletionOrder ==
  /\ Len(fed) = Len(completed)
  /\ \A k \in 1..Len(completed) : fed[k] = FeedPoint(completed[k])
  /\ trailPoints = LastOf(fed, Min(Len(fed), TRAIL_MAX))

\* a fetch started later answered first, a primary fetch having failed,
\* and the trail holds the two points in the order of the answers
C19_Witness ==
  /\ Len(completed) >= 2
  /\ completed[1] > completed[2]
  /\ failures >= 1
  /\ trailPoints[1] = FeedPoint(completed[1])
  /\ trailPoints[2] = FeedPoint(completed[2])
  /\ trailPoints[1] # trailPoints[2]


\* what the page shows of the position
display == <<trailPoints, pathsData, issData, domCoords, updateCount>>

\* the fetch leaves the outstanding set in this step without an answer
FailsNow(f) ==
  /\ f \in outstanding
  /\ f \notin outstanding'
  /\ completed' = completed

\* C20: when the primary fetch of a tick fails, the fallback endpoint is
\* tried for that tick; when the fallback fails too, nothing more is tried
\* for the tick, and the trail buffer, the marker data and the displayed
\* coordinates keep their last value: no failure changes what is shown.
C20_FailureLeavesLastValue ==
  [][\A f \in outstanding :
       FailsNow(f) =>
         /\ UNCHANGED display
         /\ f.stage = "primary" =>
              [id |-> f.id, stage |-> "fallback"] \in outstanding'
         /\ f.stage = "fallback" =>
              \A g \in outstanding' : g.id # f.id]_vars

\* a tick whose two fetches failed: it is neither outstanding nor answered,
\* and the position of an earlier tick is still shown
C20_Witness ==
  /\ \E n \in 1..ticks :
       /\ \A g \in outstanding : g.id # n
       /\ \A k \in 1..Len(completed) : completed[k] # n
       /\ \E k \in 1..Len(completed) : completed[k] < n
  /\ trailPoints # <<>>
  /\ issData = [lat |-> trailPoints[Len(trailPoints)][1],
                lng |-> trailPoints[Len(trailPoints)][2]]


(***************************************************************************)
(* initPassPrediction                                                      *)
(***************************************************************************)
Failed(run) == run.fetched = "failed" \/ run.located = "failed"

\* C21: a run of initPassPrediction whose element-set fetch fails, or whose
\* location request is denied or fails, sets the status message of that
\* failure and returns: it never calls computePasses and renders no pass.
C21_FailedRunAborts ==
  /\ [](\A r \in 1..Len(runs) :
          Failed(runs[r]) =>
            /\ runs[r].pc = "done"
            /\ ~runs[r].computed
            /\ ~runs[r].rendered)
  /\ [][\A r \in 1..Len(runs) :
          /\ runs[r].pc = "tle" /\ runs'[r].fetched = "failed" =>
               /\ statusText' = MsgTleFailed
               /\ container' = container
          /\ runs[r].pc = "loc" /\ runs'[r].located = "failed" =>
               /\ statusText' = MsgDenied
               /\ container' = HtmlEnableLocation]_vars

\* one run lost its element-set fetch, a later one was refused the location
C21_Witness ==
  /\ \E r \in 1..Len(runs) : runs[r].fetched = "failed"
  /\ \E r \in 1..Len(runs) : runs[r].located = "failed"
  /\ statusText = MsgDenied


(***************************************************************************)
(* The session                                                             *)
(***************************************************************************)
\* tick n started and both its endpoints failed
Lost(n) ==
  /\ n \in 1..ticks
  /\ \A g \in outstanding : g.id # n
  /\ \A k \in 1..Len(completed) : completed[k] # n

\* C22: no failure ends the session: whatever has failed (both position
\* endpoints of a tick, the geocoder, the crew fetch, a pass prediction),
\* the poll fires again at the next interval, and a fetch that is answered
\* afterwards appends its point to the trail.
C22_PollSurvivesFailures ==
  /\ \A n \in 0..SessionTicks :
       (globe /\ ticks = n /\ n < limits.ticks) ~> (ticks > n)
  /\ [][completed' # completed =>
          /\ trailPoints' # <<>>
          /\ trailPoints'[Len(trailPoints')] =
               FeedPoint(completed'[Len(completed')])]_vars

\* both endpoints of the first tick failed, the geocoder, the crew fetch
\* and a pass prediction failed, and the point of the next tick is on the
\* trail
C22_Witness ==
  /\ Lost(1)
  /\ ticks >= 2
  /\ crewCount = NoCrew
  /\ statusText = MsgTleFailed
  /\ completed # <<>>
  /\ completed[Len(completed)] = 2
  /\ trailPoints[Len(trailPoints)] = FeedPoint(2)
  /\ currentLocation = GetApproxLocation(FeedPoint(2)[1], FeedPoint(2)[2])


\* C23: the orbital element set is fetched once and reused: in a session,
\* whatever the order and the overlap of the runs of initPassPrediction, at
\* most one element-set fetch succeeds, so that tleData is assigned at most
\* once and a cached element set is never replaced.
C23_ElementSetFetchedOnce == tleSets <= 1


\* this step is a click that opens drawer id
Opens(id) ==
  /\ clicks' = clicks + 1
  /\ id \notin drawerOpen
  /\ id \in drawerOpen'

\* the runs of initPassPrediction begun or set to begin
PassRuns == timers.pass + Len(runs)
\* the calls of getActiveAndUpcomingShowers made or set to be made by a click
MeteorRuns == timers.meteor + computations

\* C24: pass prediction and the meteor-shower computation each run once per
\* opening of their drawer by the user and at no other time: a step begins
\* a run exactly when it is a click that opens the drawer, and then it
\* begins one run; a click that closes the drawer and a timer begin none.
C24_RunsOnlyOnOpening ==
  [][/\ PassRuns' - PassRuns = (IF Opens(PassesDrawer) THEN 1 ELSE 0)
     /\ MeteorRuns' - MeteorRuns = (IF Opens(MeteorDrawer) THEN 1 ELSE 0)]_vars


(***************************************************************************)
(* getSunPosition                                                          *)
(***************************************************************************)
\* the UTC midnight at or before the timestamp
DayStartUTC(ts) ==
  CHOOSE d \in {k * SecondsPerDay : k \in 0..MaxSunDays} :
    d <= ts /\ ts < d + SecondsPerDay

\* C25: getSunPosition(timestamp) returns
\*   longitude = (dayStartUTC - timestamp) / one day * 360 - 180 - eot / 4
\*   declination = the library's declination
\* with dayStartUTC the timestamp truncated to UTC midnight and eot the
\* library's equation of time in minutes (both sides times 4 days, to stay
\* in whole numbers); the call changes nothing but the value it returns.
C25_SunPositionFormula ==
  [][sunPosition' # sunPosition \/ sunAt' # sunAt =>
       /\ 4 * SecondsPerDay * sunPosition'[1] =
            4 * 360 * (DayStartUTC(sunAt') - sunAt')
              - 4 * 180 * SecondsPerDay
              - ephemeris[sunAt'].eot * SecondsPerDay
       /\ sunPosition'[2] = ephemeris[sunAt'].decl
       /\ UNCHANGED sunFrame
       /\ UNCHANGED ephemeris]_vars

\* at UTC noon of a later day, the equation of time being 8 minutes, the
\* longitude is -180 - 180 - 2
C25_Witness ==
  /\ sunAt > SecondsPerDay
  /\ sunAt % SecondsPerDay = 43200
  /\ ephemeris[sunAt].eot = 8
  /\ sunPosition = <<-362, ephemeris[sunAt].decl>>


(***************************************************************************)
(* The segments as a partition of the trail                                *)
(***************************************************************************)
\* the coords of the first n segments, one after the other
RECURSIVE Joined(_, _)
Joined(segs, n) ==
  IF n = 0 THEN <<>> ELSE Joined(segs, n - 1) \o segs[n].coords

\* C26: for a trail buffer of two or more points every displayed segment
\* is non-empty and the segments, concatenated in order, are exactly the
\* trail buffer (which the segmentation has left as addTrailPoint made it).
C26_SegmentsPartitionTrail ==
  Len(trailPoints) >= 2 =>
    /\ \A n \in 1..Len(pathsData) : Len(pathsData[n].coords) >= 1
    /\ Joined(pathsData, Len(pathsData)) = trailPoints

\* a crossing right after the first point or right before the last: a
\* segment of a single point next to another segment
C26_Witness ==
  /\ Len(trailPoints) >= 3
  /\ Len(pathsData) >= 2
  /\ \E n \in 1..Len(pathsData) : Len(pathsData[n].coords) = 1
  /\ Joined(pathsData, Len(pathsData)) = trailPoints


(***************************************************************************)
(* The passes returned                                                     *)
(***************************************************************************)
\* what C27 says of one pass
WellFormed(p) ==
  /\ p.start <= p.maxElTime
  /\ p.maxElTime <= p.end
  /\ p.maxEl >= MIN_ELEVATION_DEG
  /\ now <= p.start
  /\ p.end < now + WindowMs
  /\ \A k \in Idx(p.start)..Idx(p.end) :
       SampleAt(k).valid => SampleAt(k).el >= MIN_ELEVATION_DEG

\* C27: every pass computePasses returns (and every pass it has collected
\* on the way) has start <= maxElTime <= end and maxEl >= 10, lies inside
\* [now, now + 48 h), and every sample with a position between its start
\* and its end has an elevation of at least 10.
C27_PassesWellFormed ==
  /\ \A n \in 1..Len(passes) : WellFormed(passes[n])
  /\ \A n \in 1..Len(result) : WellFormed(result[n])

\* a returned pass that rose to its maximum and fell again
C27_Witness ==
  /\ pc = "done"
  /\ \E n \in 1..Len(result) :
       /\ result[n].start < result[n].maxElTime
       /\ result[n].maxElTime < result[n].end
       /\ result[n].maxEl > MIN_ELEVATION_DEG


(***************************************************************************)
(* One point per poll tick                                                 *)
(***************************************************************************)
\* how often fetch number id has appended a point
Appends(id) == Cardinality({k \in 1..Len(completed) : completed[k] = id})

\* C28: each poll tick appends at most one point to the trail: a point is
\* appended by the primary fetch of a tick or by its fallback, never by
\* both, and the fallback runs only for a tick whose primary appended none.
C28_OnePointPerTick ==
  /\ [](/\ Len(fed) = Len(completed)
        /\ \A id \in 1..ticks : Appends(id) <= 1
        /\ \A f \in outstanding : f.stage = "fallback" => Appends(f.id) = 0)
  /\ [][Len(fed') <= Len(fed) + 1]_vars

\* the primary fetch of the first tick failed and its fallback appended the
\* tick's one point; the second tick's primary appended its own
C28_Witness ==
  /\ failures = 1
  /\ ticks = 2
  /\ outstanding = {}
  /\ completed = <<1, 2>>
  /\ Len(fed) = 2


(***************************************************************************)
(* The audio context in use                                                *)
(***************************************************************************)
\* C29: whenever the ambient sound is active the audio context in use is
\* open: the delayed close of a toggle-off never closes, or takes away, the
\* context that a later toggle-on created.
C29_ActiveContextOpen ==
  soundActive => audioCtx # NoContext /\ contexts[audioCtx] = "running"


(***************************************************************************)
(* The drawers                                                             *)
(***************************************************************************)
\* C30: after any sequence of openDrawer and closeDrawer calls at most one
\* drawer is open, the open drawer (if any) is activeDrawer, the main panel
\* is hidden exactly when a drawer is open, and openDrawer called on the
\* drawer that is open closes it (no drawer open, activeDrawer null, the
\* panel shown).
C30_OneDrawerOpen ==
  /\ Cardinality(drawerOpen) <= 1
  /\ drawerOpen # {} => drawerOpen = {activeDrawer}
  /\ panelHidden <=> drawerOpen # {}
  /\ \A id \in drawerOpen :
       LET ds == OpenDrawer(DrawerState, id)
       IN ds.drawerOpen = {} /\ ds.activeDrawer = NoDrawer /\ ~ds.panelHidden

\* in a session without close buttons the second click on the button of
\* the open drawer has closed it
C30_Witness ==
  /\ ~env.close
  /\ clicks = 2
  /\ drawerOpen = {}
  /\ activeDrawer = NoDrawer
  /\ ~panelHidden

====
